---------------------------- MODULE Spec2Model ----------------------------
(***************************************************************************)
(* Model of xlsx_autofit_columns.py: the text metrics (calculate_text_width,*)
(* calculate_text_height), the font adjustment (calculate_space_utilization,*)
(* adjust_font_size), the two sizing passes (autofit_columns, autofit_rows) *)
(* as run by process_excel_file, and the batch driver (process_default_files*)
(* and main).                                                               *)
(*                                                                         *)
(* Python floats are modelled as exact rationals <<n, d>> in lowest terms   *)
(* with d > 0; a character is its code point; a cell value is None, a str   *)
(* or a non-negative int.                                                   *)
(***************************************************************************)
EXTENDS Integers, Sequences, FiniteSets, TLC

VARIABLES
    config,        \* the configuration dict of the invocation
    ws,            \* the worksheet: max_row, max_column, rows, value of each cell
    font,          \* cell.font.size of each cell (Zero: no size set)
    alignment,     \* cell.alignment of each cell
    width,         \* worksheet.column_dimensions[col].width, columns written so far
    height,        \* worksheet.row_dimensions[row].height, rows written so far
    pc,            \* position in process_excel_file's sizing of the worksheet
    col_idx,       \* loop variable of autofit_columns
    row_idx,       \* loop variable of autofit_rows
    text_width,    \* text_width of each cell as recorded in cells_in_column
    max_width,     \* max_width of each column when its width was written
    max_height,    \* max_height of each row when its height was written
    run,           \* which consecutive run of autofit_columns is executing
    first_width,   \* the column widths left by the first run
    call,          \* a call of one of the pure functions: arguments and result
    batch          \* main / process_default_files: files, position, success, exit

sheetVars == <<config, ws, font, alignment, width, height, pc, col_idx, row_idx,
               text_width, max_width, max_height, run, first_width>>
vars == <<config, ws, font, alignment, width, height, pc, col_idx, row_idx,
          text_width, max_width, max_height, run, first_width, call, batch>>

---------------------------------------------------------------------------
(* Exact arithmetic standing for Python's float arithmetic.                *)

Abs(x) == IF x < 0 THEN -x ELSE x

RECURSIVE GCD(_, _)
GCD(a, b) == IF b = 0 THEN a ELSE GCD(b, a % b)

\* n / d in lowest terms with a positive denominator (d # 0)
Rat(n, d) ==
    LET s == IF d < 0 THEN -1 ELSE 1
        g == GCD(Abs(n), Abs(d))
    IN  <<(s * n) \div g, (s * d) \div g>>

Whole(n) == <<n, 1>>
Zero == <<0, 1>>

RAdd(a, b) == Rat(a[1] * b[2] + b[1] * a[2], a[2] * b[2])
RSub(a, b) == Rat(a[1] * b[2] - b[1] * a[2], a[2] * b[2])
RMul(a, b) == Rat(a[1] * b[1], a[2] * b[2])
\* a / b, for b # 0 (Python raises ZeroDivisionError when b = 0)
RDiv(a, b) == Rat(a[1] * b[2], a[2] * b[1])
RLt(a, b) == a[1] * b[2] < b[1] * a[2]
RLe(a, b) == a[1] * b[2] <= b[1] * a[2]
\* Python's max(a, b) and min(a, b): the first argument unless the second is
\* strictly larger (smaller)
RMax(a, b) == IF RLt(a, b) THEN b ELSE a
RMin(a, b) == IF RLt(b, a) THEN b ELSE a
RAbs(a) == <<Abs(a[1]), a[2]>>
\* Python's int(x) on a float: truncation toward zero
Trunc(a) == IF a[1] >= 0 THEN a[1] \div a[2] ELSE -((-a[1]) \div a[2])

---------------------------------------------------------------------------
(* Cell values and characters.                                              *)

NoneValue == [kind |-> "none", s |-> <<>>, n |-> 0]
Str(s) == [kind |-> "str", s |-> s, n |-> 0]
Num(n) == [kind |-> "int", s |-> <<>>, n |-> n]

\* the code point of '\n', on which calculate_text_height splits
NEWLINE == 10

RECURSIVE Digits(_)
Digits(n) == IF n < 10 THEN <<48 + n>> ELSE Digits(n \div 10) \o <<48 + (n % 10)>>

\* str(text)
ToStr(v) == IF v.kind = "int" THEN Digits(v.n) ELSE v.s

\* "not text": None, the empty string and the number 0 are falsy
Falsy(v) == \/ v.kind = "none"
            \/ v.kind = "str" /\ v.s = <<>>
            \/ v.kind = "int" /\ v.n = 0

ASCII_MAX == 127
EMOJI_MIN == 126976

get_char_type(code) ==
    IF code <= ASCII_MAX THEN "ascii"
    ELSE IF code > EMOJI_MIN THEN "emoji"
    ELSE "cjk"

CHAR_WIDTH == [ascii |-> Rat(7, 10), cjk |-> Whole(2), emoji |-> Whole(2)]

DEFAULT_CONFIG ==
    [width_factor |-> Rat(13, 10), height_factor |-> Rat(13, 10),
     min_width |-> Whole(8), max_width |-> Whole(120),
     min_height |-> Whole(20), max_height |-> Whole(409),
     default_font_size |-> Whole(12),
     enable_size_limits |-> TRUE, enable_font_autofit |-> FALSE,
     enable_cell_wrap |-> TRUE, enable_cell_alignment |-> TRUE,
     horizontal_alignment |-> "center", vertical_alignment |-> "center"]

---------------------------------------------------------------------------
(* Text metrics.                                                            *)

RECURSIVE SumWidths(_)
SumWidths(s) ==
    IF s = <<>> THEN Zero
    ELSE RAdd(CHAR_WIDTH[get_char_type(Head(s))], SumWidths(Tail(s)))

\* font_size / DEFAULT_CONFIG['default_font_size']: the module-level default,
\* whatever configuration the invocation runs with
font_factor(font_size) == RDiv(font_size, DEFAULT_CONFIG.default_font_size)

calculate_text_width(text, font_size) ==
    IF Falsy(text) THEN Zero
    ELSE RMul(SumWidths(ToStr(text)), font_factor(font_size))

\* text.split('\n')
RECURSIVE Split(_)
Split(s) ==
    IF s = <<>> THEN << <<>> >>
    ELSE LET rest == Split(Tail(s))
         IN  IF Head(s) = NEWLINE THEN << <<>> >> \o rest
             ELSE << <<Head(s)>> \o rest[1] >> \o Tail(rest)

EFFECTIVE_WIDTH_RATIO == Rat(9, 10)

\* int(line_count) + (1 if line_count > int(line_count) else 0)
round_up_always(line_count) == Trunc(line_count) + 1
round_up(line_count) ==
    Trunc(line_count) + (IF RLt(Whole(Trunc(line_count)), line_count) THEN 1 ELSE 0)

\* the lines one segment of the split adds to total_lines
line_lines(line, column_width, font_size) ==
    IF line = <<>> THEN 1
    ELSE LET line_width == calculate_text_width(Str(line), font_size)
         IN  IF RLt(Zero, column_width)
             THEN LET effective_width == RMul(column_width, EFFECTIVE_WIDTH_RATIO)
                      line_count == round_up(RDiv(line_width, effective_width))
                  IN  IF line_count > 1 THEN line_count ELSE 1
             ELSE 1

RECURSIVE total_lines(_, _, _)
total_lines(lines, column_width, font_size) ==
    IF lines = <<>> THEN 0
    ELSE line_lines(Head(lines), column_width, font_size)
         + total_lines(Tail(lines), column_width, font_size)

calculate_text_height(text, column_width, font_size) ==
    IF Falsy(text) THEN Whole(1)
    ELSE RAdd(RMul(Whole(total_lines(Split(ToStr(text)), column_width, font_size)),
                   font_factor(font_size)),
              Whole(1))

---------------------------------------------------------------------------
(* Font-size adjustment.                                                    *)

calculate_space_utilization(text_size, container_size) ==
    IF RLe(container_size, Zero) THEN Whole(1)
    ELSE RDiv(text_size, container_size)

HALF == Rat(1, 2)
MIN_FACTOR == Rat(8, 10)
MAX_FACTOR == Rat(15, 10)

\* 1 / utilization is evaluated, and raises ZeroDivisionError, exactly when the
\* early return is not taken and utilization is 0
adjust_font_size_raises(utilization) ==
    /\ ~RLe(HALF, utilization)
    /\ utilization = Zero

adjust_font_size_no_max(original_size, utilization) ==
    IF RLe(HALF, utilization) THEN original_size
    ELSE RMul(original_size, RMax(MIN_FACTOR, RDiv(Whole(1), utilization)))
adjust_font_size(original_size, utilization) ==
    IF RLe(HALF, utilization) THEN original_size
    ELSE RMul(original_size,
              RMax(MIN_FACTOR, RMin(MAX_FACTOR, RDiv(Whole(1), utilization))))

---------------------------------------------------------------------------
(* The worksheet and the configuration of one invocation.                   *)

\* an input worksheet has at most MaxRow rows and MaxCells cells
MaxRow == 2
MaxCells == 4

Cells(sheet) == (1 .. sheet.max_row) \X (1 .. sheet.max_column)

\* what a cell of an input worksheet holds: its value and its font size
\* (Zero: the font gives no size)
CellChoices ==
    { [value |-> NoneValue, size |-> Zero],
      [value |-> Num(0), size |-> Zero],
      [value |-> Str(<<97, 97, 97, 97>>), size |-> Zero],
      [value |-> Str(<<20013, 10, 20013>>), size |-> Whole(24)] }

Dims == { d \in (1 .. MaxRow) \X (1 .. MaxCells) : d[1] * d[2] <= MaxCells }

\* a worksheet with no cell at all: max_row = max_column = 1 and
\* list(worksheet.rows) is empty
EmptySheet ==
    [max_row |-> 1, max_column |-> 1, has_rows |-> FALSE,
     cell |-> [k \in {<<1, 1>>} |-> [value |-> NoneValue, size |-> Zero]]]

Worksheets ==
    {EmptySheet} \cup
    UNION { { [max_row |-> d[1], max_column |-> d[2], has_rows |-> TRUE, cell |-> f] :
              f \in [(1 .. d[1]) \X (1 .. d[2]) -> CellChoices] } : d \in Dims }

\* numeric settings of a configuration (main() builds them from the command
\* line): the defaults, tight limits, limits with min above max, another default
\* font size with a large width factor, and zero / negative factors
Profiles ==
    { [width_factor |-> Rat(13, 10), height_factor |-> Rat(13, 10),
       min_width |-> Whole(8), max_width |-> Whole(120),
       min_height |-> Whole(20), max_height |-> Whole(409),
       default_font_size |-> Whole(12), enable_cell_alignment |-> TRUE],
      [width_factor |-> Rat(13, 10), height_factor |-> Rat(13, 10),
       min_width |-> Whole(2), max_width |-> Whole(10),
       min_height |-> Whole(200), max_height |-> Whole(409),
       default_font_size |-> Whole(12), enable_cell_alignment |-> TRUE],
      [width_factor |-> Rat(13, 10), height_factor |-> Rat(13, 10),
       min_width |-> Whole(200), max_width |-> Whole(120),
       min_height |-> Whole(500), max_height |-> Whole(409),
       default_font_size |-> Whole(12), enable_cell_alignment |-> TRUE],
      [width_factor |-> Whole(3), height_factor |-> Rat(13, 10),
       min_width |-> Whole(8), max_width |-> Whole(120),
       min_height |-> Whole(20), max_height |-> Whole(409),
       default_font_size |-> Whole(24), enable_cell_alignment |-> FALSE],
      [width_factor |-> Zero, height_factor |-> Whole(-1),
       min_width |-> Whole(8), max_width |-> Whole(120),
       min_height |-> Whole(20), max_height |-> Whole(409),
       default_font_size |-> Whole(12), enable_cell_alignment |-> TRUE] }

Configs ==
    { [width_factor |-> p.width_factor, height_factor |-> p.height_factor,
       min_width |-> p.min_width, max_width |-> p.max_width,
       min_height |-> p.min_height, max_height |-> p.max_height,
       default_font_size |-> p.default_font_size,
       enable_size_limits |-> limits, enable_font_autofit |-> autofit,
       enable_cell_wrap |-> TRUE, enable_cell_alignment |-> p.enable_cell_alignment,
       horizontal_alignment |-> "center", vertical_alignment |-> "center"] :
      p \in Profiles, limits \in BOOLEAN, autofit \in BOOLEAN }

NoCall == [fn |-> "none", text |-> NoneValue, a |-> Zero, b |-> Zero,
           ret |-> Zero, at |-> "idle"]
NoBatch == [files |-> <<>>, single |-> FALSE, i |-> 0, success |-> FALSE,
            processed |-> <<>>, exit |-> -1, at |-> "idle"]

\* writing entry k of a dimension holder
Write(f, k, v) == [x \in DOMAIN f \cup {k} |-> IF x = k THEN v ELSE f[x]]

---------------------------------------------------------------------------
(* Shared pieces of the two passes.                                         *)

\* getattr(getattr(cell, 'font', None), 'size', None) or config['default_font_size']
cell_font_size(k) == IF font[k] = Zero THEN config.default_font_size ELSE font[k]

font_autofit_always(cfg) == TRUE
font_autofit_enabled(cfg) == cfg.enable_font_autofit

FONT_CHANGE_THRESHOLD == Rat(1, 10)
\* abs(new_font_size - original_font_size) > 0.1
changes_font(new_font_size, original_font_size) ==
    RLt(FONT_CHANGE_THRESHOLD, RAbs(RSub(new_font_size, original_font_size)))

\* max(...) folded over the values of f at the indices 1 .. n that are in S
RECURSIVE running_max(_, _, _)
running_max(f, S, n) ==
    IF n = 0 THEN Zero
    ELSE IF n \in S THEN RMax(running_max(f, S, n - 1), f[n])
    ELSE running_max(f, S, n - 1)

\* the first index at which the font loop raises, 0 when it runs to its end
first_raise(util, S) ==
    LET R == { i \in S : adjust_font_size_raises(util[i]) }
    IN  IF R = {} THEN 0 ELSE CHOOSE i \in R : \A j \in R : i <= j

---------------------------------------------------------------------------
(* autofit_columns.                                                         *)

final_width_min_only(cfg, adjusted_width) ==
    IF cfg.enable_size_limits THEN RMax(cfg.min_width, adjusted_width)
    ELSE adjusted_width
final_width(cfg, adjusted_width) ==
    IF cfg.enable_size_limits
    THEN RMax(cfg.min_width, RMin(cfg.max_width, adjusted_width))
    ELSE adjusted_width

\* data_rows = list(worksheet.rows); if not data_rows: return
autofit_columns_start(after) ==
    /\ pc = "autofit_columns"
    /\ IF ~ws.has_rows
       THEN pc' = after /\ col_idx' = col_idx
       ELSE pc' = "columns" /\ col_idx' = 1
    /\ UNCHANGED <<config, ws, font, alignment, width, height, row_idx, text_width,
                   max_width, max_height, run, first_width, call, batch>>

\* the last index of range(1, worksheet.max_column + 1)
last_column_short(sheet) == IF sheet.max_column > 1 THEN sheet.max_column - 1 ELSE 1
last_column(sheet) == sheet.max_column

\* "worksheet.column_dimensions[col_letter].width = final_width" runs for every
\* column of the loop, whatever cells_in_column holds
writes_width_if_measured(cells_in_column) == cells_in_column # {}
writes_width(cells_in_column) == TRUE

\* one iteration of "for col_idx in range(1, worksheet.max_column + 1)"
autofit_columns_col(after) ==
    /\ pc = "columns"
    /\ col_idx <= last_column(ws)
    /\ LET rows == 1 .. ws.max_row
           cells_in_column == { r \in rows : ws.cell[<<r, col_idx>>].value.kind # "none" }
           font_size == [r \in rows |-> cell_font_size(<<r, col_idx>>)]
           tw == [r \in rows |->
                    calculate_text_width(ws.cell[<<r, col_idx>>].value, font_size[r])]
           maxw == running_max(tw, cells_in_column, ws.max_row)
           adjusted_width == RMul(maxw, config.width_factor)
           final == final_width(config, adjusted_width)
           utilization == [r \in rows |-> calculate_space_utilization(tw[r], final)]
           raise_at == IF font_autofit_enabled(config)
                       THEN first_raise(utilization, cells_in_column) ELSE 0
           reached == IF ~font_autofit_enabled(config) THEN {}
                      ELSE IF raise_at = 0 THEN cells_in_column
                      ELSE { r \in cells_in_column : r < raise_at }
           new_font_size == [r \in rows |->
                               IF r \in reached
                               THEN adjust_font_size(font_size[r], utilization[r])
                               ELSE font_size[r]]
       IN  /\ text_width' = [k \in DOMAIN text_width |->
                               IF k[2] = col_idx /\ k[1] \in cells_in_column
                               THEN tw[k[1]] ELSE text_width[k]]
           /\ alignment' = [k \in DOMAIN alignment |->
                              IF /\ k[2] = col_idx
                                 /\ k[1] \in cells_in_column
                                 /\ config.enable_cell_alignment
                              THEN [horizontal |-> config.horizontal_alignment,
                                    vertical |-> config.vertical_alignment,
                                    wrap_text |-> config.enable_cell_wrap]
                              ELSE alignment[k]]
           /\ max_width' = Write(max_width, col_idx, maxw)
           /\ width' = IF writes_width(cells_in_column)
                        THEN Write(width, col_idx, final) ELSE width
           /\ font' = [k \in DOMAIN font |->
                         IF /\ k[2] = col_idx
                            /\ k[1] \in reached
                            /\ changes_font(new_font_size[k[1]], font_size[k[1]])
                         THEN new_font_size[k[1]] ELSE font[k]]
           /\ IF raise_at # 0
              THEN pc' = "raised" /\ col_idx' = col_idx
              ELSE IF col_idx = last_column(ws)
              THEN pc' = after /\ col_idx' = col_idx
              ELSE pc' = "columns" /\ col_idx' = col_idx + 1
    /\ UNCHANGED <<config, ws, height, row_idx, max_height, run, first_width,
                   call, batch>>

---------------------------------------------------------------------------
(* autofit_rows.                                                            *)

HEIGHT_UNIT == 15
WIDTH_GUARD == Rat(9, 10)

final_height(cfg, adjusted_height) ==
    IF cfg.enable_size_limits
    THEN RMax(cfg.min_height, RMin(cfg.max_height, adjusted_height))
    ELSE adjusted_height

\* worksheet.column_dimensions[col_letter].width; a dimension never written
\* holds the library's default width
column_dimensions_width(c) == IF c \in DOMAIN width THEN width[c] ELSE Whole(13)

\* "if width_utilization <= 0.9"
width_guard_absent(width_utilization) == TRUE
width_guard(width_utilization) == RLe(width_utilization, WIDTH_GUARD)

\* one iteration of "for row_idx in range(1, worksheet.max_row + 1)"
autofit_rows_row ==
    /\ pc = "rows"
    /\ row_idx <= ws.max_row
    /\ LET cols == 1 .. ws.max_column
           cells_in_row == { c \in cols : ws.cell[<<row_idx, c>>].value.kind # "none" }
           font_size == [c \in cols |-> cell_font_size(<<row_idx, c>>)]
           col_width == [c \in cols |-> column_dimensions_width(c)]
           th == [c \in cols |->
                    calculate_text_height(ws.cell[<<row_idx, c>>].value,
                                          col_width[c], font_size[c])]
           maxh == running_max(th, cells_in_row, ws.max_column)
           adjusted_height ==
               RMul(RMul(maxh, config.height_factor), Whole(HEIGHT_UNIT))
           final == final_height(config, adjusted_height)
           utilization == [c \in cols |->
               calculate_space_utilization(RMul(th[c], Whole(HEIGHT_UNIT)), final)]
           raise_at == IF font_autofit_enabled(config)
                       THEN first_raise(utilization, cells_in_row) ELSE 0
           reached == IF ~font_autofit_enabled(config) THEN {}
                      ELSE IF raise_at = 0 THEN cells_in_row
                      ELSE { c \in cells_in_row : c < raise_at }
           new_font_size == [c \in cols |->
                               IF c \in reached
                               THEN adjust_font_size(font_size[c], utilization[c])
                               ELSE font_size[c]]
           width_utilization == [c \in cols |->
               calculate_space_utilization(
                   calculate_text_width(ws.cell[<<row_idx, c>>].value, new_font_size[c]),
                   col_width[c])]
       IN  /\ max_height' = Write(max_height, row_idx, maxh)
           /\ height' = Write(height, row_idx, final)
           /\ font' = [k \in DOMAIN font |->
                         IF /\ k[1] = row_idx
                            /\ k[2] \in reached
                            /\ changes_font(new_font_size[k[2]], font_size[k[2]])
                            /\ width_guard(width_utilization[k[2]])
                         THEN new_font_size[k[2]] ELSE font[k]]
           /\ IF raise_at # 0
              THEN pc' = "raised" /\ row_idx' = row_idx
              ELSE IF row_idx = ws.max_row
              THEN pc' = "done" /\ row_idx' = row_idx
              ELSE pc' = "rows" /\ row_idx' = row_idx + 1
    /\ UNCHANGED <<config, ws, alignment, width, col_idx, text_width, max_width,
                   run, first_width, call, batch>>

---------------------------------------------------------------------------
(* process_excel_file on one worksheet: autofit_columns, then autofit_rows. *)

SheetInit(sheet, cfg) ==
    /\ config = cfg
    /\ ws = sheet
    /\ font = [k \in Cells(sheet) |-> sheet.cell[k].size]
    /\ alignment = [k \in Cells(sheet) |-> [horizontal |-> "general",
                                            vertical |-> "bottom",
                                            wrap_text |-> FALSE]]
    /\ width = <<>>
    /\ height = <<>>
    /\ pc = "autofit_columns"
    /\ col_idx = 0
    /\ row_idx = 1
    /\ text_width = [k \in Cells(sheet) |-> Zero]
    /\ max_width = <<>>
    /\ max_height = <<>>
    /\ run = 1
    /\ first_width = <<>>

Init ==
    /\ \E sheet \in Worksheets, cfg \in Configs : SheetInit(sheet, cfg)
    /\ call = NoCall
    /\ batch = NoBatch

Next ==
    \/ autofit_columns_start("rows")
    \/ autofit_columns_col("rows")
    \/ autofit_rows_row

Spec == Init /\ [][Next]_vars

---------------------------------------------------------------------------
(* autofit_columns run twice in a row on the same worksheet.                *)

autofit_columns_again ==
    /\ pc = "returned"
    /\ run = 1
    /\ run' = 2
    /\ first_width' = width
    /\ pc' = "autofit_columns"
    /\ UNCHANGED <<config, ws, font, alignment, width, height, col_idx, row_idx,
                   text_width, max_width, max_height, call, batch>>

NextTwice ==
    \/ autofit_columns_start("returned")
    \/ autofit_columns_col("returned")
    \/ autofit_columns_again

SpecTwice == Init /\ [][NextTwice]_vars

---------------------------------------------------------------------------
(* The pure functions, each applied to arguments drawn from bounded sets.   *)

\* the longest text handed to the text metrics
MaxLen == 3

Alphabet == {97, 10, 20013, 128512}

RECURSIVE TextsOfLen(_)
TextsOfLen(n) ==
    IF n = 0 THEN { <<>> }
    ELSE { <<ch>> \o t : ch \in Alphabet, t \in TextsOfLen(n - 1) }

FnTexts ==
    {NoneValue, Num(0), Num(7)} \cup
    { Str(t) : t \in UNION { TextsOfLen(n) : n \in 0 .. MaxLen } }

FnColumnWidths == {Whole(-1), Zero, Rat(7, 9), Whole(1), Rat(20, 9), Whole(8)}
FnFontSizes == {Whole(11), Whole(12), Whole(24)}
FnUtilizations ==
    {Rat(-1, 2), Zero, Rat(1, 100), Rat(1, 10), Rat(1, 4), Rat(2, 5), Rat(49, 100),
     Rat(1, 2), Rat(51, 100), Rat(4, 5), Whole(1), Rat(5, 4), Whole(2), Whole(10)}
FnOriginalSizes == {Rat(1, 10), Whole(6), Whole(11), Whole(12), Whole(24), Whole(36)}

FnCalls ==
    { [fn |-> "calculate_text_height", text |-> t, a |-> w, b |-> f,
       ret |-> Zero, at |-> "called"] :
      t \in FnTexts, w \in FnColumnWidths, f \in FnFontSizes }
    \cup
    { [fn |-> "adjust_font_size", text |-> NoneValue, a |-> o, b |-> u,
       ret |-> Zero, at |-> "called"] :
      o \in FnOriginalSizes, u \in FnUtilizations }

InitFn ==
    /\ SheetInit(EmptySheet, DEFAULT_CONFIG)
    /\ call \in FnCalls
    /\ batch = NoBatch

\* calculate_text_height(text, column_width, font_size)
call_calculate_text_height ==
    /\ call.fn = "calculate_text_height"
    /\ call.at = "called"
    /\ call' = [call EXCEPT !.ret = calculate_text_height(call.text, call.a, call.b),
                            !.at = "returned"]
    /\ UNCHANGED <<sheetVars, batch>>

\* adjust_font_size(original_size, utilization) with the default factors
call_adjust_font_size ==
    /\ call.fn = "adjust_font_size"
    /\ call.at = "called"
    /\ call' = IF adjust_font_size_raises(call.b)
               THEN [call EXCEPT !.at = "raised"]
               ELSE [call EXCEPT !.ret = adjust_font_size(call.a, call.b),
                                 !.at = "returned"]
    /\ UNCHANGED <<sheetVars, batch>>

NextFn ==
    \/ call_calculate_text_height
    \/ call_adjust_font_size

SpecFn == InitFn /\ [][NextFn]_vars

---------------------------------------------------------------------------
(* main, process_default_files and process_excel_file's outcome per file.   *)

\* the longest batch of requested files
MaxFiles == 3

\* what becomes of a file: processed and saved, os.path.exists false,
\* PermissionError on open, an exception while loading or sizing,
\* PermissionError on save
FileFates == {"ok", "missing", "unreadable", "error", "save_denied"}

\* process_excel_file's return value
process_excel_file(file) ==
    IF file = "missing" THEN FALSE
    ELSE IF file = "unreadable" THEN FALSE
    ELSE IF file = "error" THEN FALSE
    ELSE IF file = "save_denied" THEN FALSE
    ELSE TRUE

\* "if not file_success: success = False"
batch_success_last_file(success, file_success) == file_success
batch_success(success, file_success) == IF ~file_success THEN FALSE ELSE success

RECURSIVE SeqsOfLen(_, _)
SeqsOfLen(S, n) ==
    IF n = 0 THEN { <<>> }
    ELSE { <<x>> \o t : x \in S, t \in SeqsOfLen(S, n - 1) }

\* args.file given: one requested file; otherwise DEFAULT_FILES, of any length
Batches ==
    { [files |-> <<f>>, single |-> TRUE, i |-> 0, success |-> FALSE,
       processed |-> <<>>, exit |-> -1, at |-> "main"] : f \in FileFates }
    \cup
    { [files |-> fs, single |-> FALSE, i |-> 0, success |-> FALSE,
       processed |-> <<>>, exit |-> -1, at |-> "main"] :
      fs \in UNION { SeqsOfLen(FileFates, n) : n \in 0 .. MaxFiles } }

InitBatch ==
    /\ SheetInit(EmptySheet, DEFAULT_CONFIG)
    /\ call = NoCall
    /\ batch \in Batches

\* "if args.file: success = process_excel_file(...) else: process_default_files"
main_dispatch ==
    /\ batch.at = "main"
    /\ batch' = IF batch.single
                THEN [batch EXCEPT !.success = process_excel_file(batch.files[1]),
                                   !.processed = <<process_excel_file(batch.files[1])>>,
                                   !.at = "exit"]
                ELSE [batch EXCEPT !.at = "process_default_files"]
    /\ UNCHANGED <<sheetVars, call>>

\* "if not DEFAULT_FILES: return False", else "success = True" and the loop
process_default_files_start ==
    /\ batch.at = "process_default_files"
    /\ batch' = IF batch.files = <<>>
                THEN [batch EXCEPT !.success = FALSE, !.at = "exit"]
                ELSE [batch EXCEPT !.success = TRUE, !.i = 1, !.at = "loop"]
    /\ UNCHANGED <<sheetVars, call>>

\* one iteration of "for file_path in DEFAULT_FILES"
process_default_files_file ==
    /\ batch.at = "loop"
    /\ batch.i <= Len(batch.files)
    /\ LET file_success == process_excel_file(batch.files[batch.i])
       IN  batch' = [batch EXCEPT
                       !.processed = Append(batch.processed, file_success),
                       !.success = batch_success(batch.success, file_success),
                       !.i = batch.i + 1,
                       !.at = IF batch.i = Len(batch.files) THEN "exit" ELSE "loop"]
    /\ UNCHANGED <<sheetVars, call>>

\* sys.exit(0 if success else 1)
main_exit ==
    /\ batch.at = "exit"
    /\ batch' = [batch EXCEPT !.exit = IF batch.success THEN 0 ELSE 1,
                              !.at = "exited"]
    /\ UNCHANGED <<sheetVars, call>>

NextBatch ==
    \/ main_dispatch
    \/ process_default_files_start
    \/ process_default_files_file
    \/ main_exit

SpecBatch == InitBatch /\ [][NextBatch]_vars

---------------------------------------------------------------------------
(* Properties of the sizing of one worksheet (specification Spec).          *)

NonNull(k) == ws.cell[k].value.kind # "none"
EmptyColumn(c) == \A r \in 1 .. ws.max_row : ~NonNull(<<r, c>>)

\* m is the maximum of 0 and the measured widths of column c's non-null cells
IsColumnMaximum(m, c) ==
    /\ RLe(Zero, m)
    /\ \A r \in 1 .. ws.max_row : NonNull(<<r, c>>) => RLe(text_width[<<r, c>>], m)
    /\ \/ m = Zero
       \/ \E r \in 1 .. ws.max_row : NonNull(<<r, c>>) /\ m = text_width[<<r, c>>]

Unclamped ==
    /\ \A c \in DOMAIN width :
          /\ IsColumnMaximum(max_width[c], c)
          /\ width[c] = RMul(max_width[c], config.width_factor)
    /\ \A r \in DOMAIN height :
          height[r] = RMul(RMul(max_height[r], config.height_factor), Whole(HEIGHT_UNIT))

\* C1 as stated: with enable_size_limits every written column width lies in
\* [min_width, max_width] and every written row height in [min_height,
\* max_height]; without it the width is max_text_width * width_factor and the
\* height max_text_height * height_factor * 15
C1_SizesWithinLimits ==
    IF config.enable_size_limits
    THEN /\ \A c \in DOMAIN width :
               RLe(config.min_width, width[c]) /\ RLe(width[c], config.max_width)
         /\ \A r \in DOMAIN height :
               RLe(config.min_height, height[r]) /\ RLe(height[r], config.max_height)
    ELSE Unclamped

\* C1 amended: with enable_size_limits every written width is at least
\* min_width, and at most max_width whenever min_width <= max_width (likewise
\* every written height); without it the sizes are the unclamped products
C1_SizesWithinOrderedLimits ==
    IF config.enable_size_limits
    THEN /\ \A c \in DOMAIN width :
               /\ RLe(config.min_width, width[c])
               /\ RLe(config.min_width, config.max_width)
                     => RLe(width[c], config.max_width)
         /\ \A r \in DOMAIN height :
               /\ RLe(config.min_height, height[r])
               /\ RLe(config.min_height, config.max_height)
                     => RLe(height[r], config.max_height)
    ELSE Unclamped

\* both passes ran with limits enabled and ordered, a column was clamped down to
\* max_width and a row up to min_height
C1_Witness ==
    /\ pc = "done"
    /\ config.enable_size_limits
    /\ RLe(config.min_width, config.max_width)
    /\ \E c \in DOMAIN width :
          /\ width[c] = config.max_width
          /\ RLt(config.max_width, RMul(max_width[c], config.width_factor))
    /\ \E r \in DOMAIN height : height[r] = config.min_height

AllColumnsWritten == DOMAIN width = 1 .. ws.max_column

\* C2 as stated: every column 1..max_column has its width written before any row
\* height is written, and no column width changes once a row height is written
C2_ColumnsBeforeRows ==
    /\ [](height # <<>> => AllColumnsWritten)
    /\ [][height # <<>> => width' = width]_vars

\* C2 amended: autofit_columns has finished before any row height is written; it
\* has written every column's width when the worksheet has rows and none when
\* list(worksheet.rows) is empty; no column width changes afterwards
C2_ColumnPassBeforeRows ==
    /\ [](height # <<>> =>
             /\ pc \in {"rows", "done", "raised"}
             /\ IF ws.has_rows THEN AllColumnsWritten ELSE width = <<>>)
    /\ [][height # <<>> => width' = width]_vars

\* a worksheet with several columns and rows, a row height already written
\* and another row still to come
C2_Witness ==
    /\ pc = "rows"
    /\ ws.max_column >= 2
    /\ ws.max_row >= 2
    /\ height # <<>>
    /\ AllColumnsWritten

Adjusted(k) == font[k] # ws.cell[k].size

\* C3: with enable_font_autofit, a cell whose font size was adjusted has a text
\* width, estimated at its new font size, of at most 0.9 * its column's width
C3_FontAutofitSafe ==
    config.enable_font_autofit =>
        \A k \in DOMAIN font :
            Adjusted(k) =>
                /\ k[2] \in DOMAIN width
                /\ RLe(calculate_text_width(ws.cell[k].value, font[k]),
                       RMul(WIDTH_GUARD, width[k[2]]))

\* after both passes one cell had its font enlarged twice (by the column pass and
\* then, the guard passing, by the row pass), and another cell, which the column
\* pass left alone, was refused by the row pass's guard: it is still at its
\* original size, at which its text fills more than 0.6 of its column
C3_Witness ==
    /\ pc = "done"
    /\ config.enable_font_autofit
    /\ \E k \in DOMAIN font :
          /\ NonNull(k)
          /\ font[k] = RMul(Rat(9, 4), config.default_font_size)
    /\ \E k \in DOMAIN font :
          /\ NonNull(k)
          /\ ~Adjusted(k)
          /\ RLt(RMul(Rat(6, 10), width[k[2]]),
                 calculate_text_width(ws.cell[k].value, cell_font_size(k)))
          /\ RLt(RMul(RMul(max_height[k[1]], Whole(HEIGHT_UNIT)), Whole(2)),
                 height[k[1]])

\* C4 as stated: autofit_columns and autofit_rows never raise, whatever the
\* worksheet and the configuration
C4_NeverRaises == pc # "raised"

\* C5 as stated: once the column pass is over, every column without a non-null
\* cell has running maximum 0 and width min_width (limits enabled) or 0
C5_EmptyColumnSized ==
    pc \in {"rows", "done"} =>
        \A c \in 1 .. ws.max_column :
            EmptyColumn(c) =>
                /\ c \in DOMAIN width
                /\ max_width[c] = Zero
                /\ width[c] = IF config.enable_size_limits
                              THEN config.min_width ELSE Zero

\* C5 amended: the same, on a worksheet whose list(worksheet.rows) is not empty;
\* when it is empty autofit_columns returns without writing any width
C5_EmptyColumnSizedIfRows ==
    /\ ws.has_rows /\ pc \in {"rows", "done"} =>
          \A c \in 1 .. ws.max_column :
              EmptyColumn(c) =>
                  /\ c \in DOMAIN width
                  /\ max_width[c] = Zero
                  /\ width[c] = IF config.enable_size_limits
                                THEN config.min_width ELSE Zero
    /\ ~ws.has_rows => width = <<>>

\* the column pass is over on a worksheet with rows where one column holds no
\* value and another does
C5_Witness ==
    /\ pc = "rows"
    /\ ws.has_rows
    /\ \E c \in 1 .. ws.max_column : EmptyColumn(c) /\ c \in DOMAIN width
    /\ \E c \in 1 .. ws.max_column : ~EmptyColumn(c)

RECURSIVE AllOfType(_, _)
AllOfType(s, type) ==
    s = <<>> \/ (get_char_type(Head(s)) = type /\ AllOfType(Tail(s), type))

\* C8 as stated: a cell that gives no font size is measured with scale factor 1
\* under any configured default_font_size: N ASCII characters measure 0.7 * N
\* and N CJK characters 2.0 * N
C8_DefaultFontScaleIsOne ==
    \A k \in DOMAIN font :
        (/\ k[2] \in DOMAIN width
         /\ ws.cell[k].value.kind = "str"
         /\ ws.cell[k].size = Zero) =>
            LET text == ToStr(ws.cell[k].value)
            IN  /\ AllOfType(text, "ascii")
                      => text_width[k] = RMul(Rat(7, 10), Whole(Len(text)))
                /\ AllOfType(text, "cjk")
                      => text_width[k] = RMul(Whole(2), Whole(Len(text)))


---------------------------------------------------------------------------
(* Properties of the batch driver (specification SpecBatch).                *)

AnyFailed == \E i \in 1 .. Len(batch.files) : batch.files[i] # "ok"

\* C6 as stated: every requested file is processed whatever became of the files
\* before it, and the exit status is 1 if a requested file failed and 0 if all
\* requested files succeeded
C6_BatchExitStatus ==
    batch.at = "exited" =>
        /\ Len(batch.processed) = Len(batch.files)
        /\ batch.exit = IF AnyFailed THEN 1 ELSE 0

\* C6 amended: as stated, except that the exit status is 0 only when at least
\* one file was requested: with an empty DEFAULT_FILES and no file argument the
\* exit status is 1
C6_BatchExitStatusNonEmpty ==
    batch.at = "exited" =>
        /\ Len(batch.processed) = Len(batch.files)
        /\ \A i \in 1 .. Len(batch.files) : batch.processed[i] = (batch.files[i] = "ok")
        /\ batch.exit = IF AnyFailed \/ batch.files = <<>> THEN 1 ELSE 0

\* a batch whose first file failed and whose last file succeeded ran to its exit
C6_Witness ==
    /\ batch.at = "exited"
    /\ ~batch.single
    /\ Len(batch.files) >= 2
    /\ batch.files[1] # "ok"
    /\ batch.files[Len(batch.files)] = "ok"
    /\ batch.processed[Len(batch.files)]
    /\ batch.exit = 1

---------------------------------------------------------------------------
(* Properties of two consecutive column passes (specification SpecTwice).   *)

\* C7: with enable_font_autofit unset, the second run of autofit_columns leaves
\* every column with the width the first run left
C7_ColumnPassIdempotent ==
    (~config.enable_font_autofit /\ run = 2 /\ pc = "returned") => width = first_width

\* the second run has returned, autofit unset, on a worksheet with columns of
\* different widths whose cells the first run restyled
C7_Witness ==
    /\ ~config.enable_font_autofit
    /\ run = 2
    /\ pc = "returned"
    /\ Len(width) >= 2
    /\ width[1] # width[2]
    /\ \E k \in DOMAIN alignment : alignment[k].wrap_text

---------------------------------------------------------------------------
(* Properties of the pure functions (specification SpecFn).                 *)

\* the least n >= 1 with n * (0.9 * column_width) >= segment_width
LeastCover(segment_width, column_width) ==
    LET effective == RMul(EFFECTIVE_WIDTH_RATIO, column_width)
    IN  CHOOSE n \in 1 .. 64 :
            /\ RLe(segment_width, RMul(Whole(n), effective))
            /\ n = 1 \/ RLt(RMul(Whole(n - 1), effective), segment_width)

SegmentLines(segment, column_width, font_size) ==
    IF segment = <<>> THEN 1
    ELSE IF RLe(column_width, Zero) THEN 1
    ELSE LeastCover(calculate_text_width(Str(segment), font_size), column_width)

RECURSIVE SumLines(_, _, _)
SumLines(segments, column_width, font_size) ==
    IF segments = <<>> THEN 0
    ELSE SegmentLines(Head(segments), column_width, font_size)
         + SumLines(Tail(segments), column_width, font_size)

\* C9: calculate_text_height returns 1 for empty or None text (and for the
\* number 0, which "not text" treats alike), and otherwise
\* (sum over the segments between line breaks of: 1 for an empty segment or a
\* non-positive column width, else the least integer >= segment_width /
\* (0.9 * column_width), at least 1) * (font_size / 12) + 1
C9_TextHeight ==
    (call.fn = "calculate_text_height" /\ call.at = "returned") =>
        IF call.text.kind = "none" \/ ToStr(call.text) = <<>> \/ call.text = Num(0)
        THEN call.ret = Whole(1)
        ELSE call.ret =
                 RAdd(RMul(Whole(SumLines(Split(ToStr(call.text)), call.a, call.b)),
                           RDiv(call.b, Whole(12))),
                      Whole(1))

\* a call returned for a text of two segments, the first filling exactly two
\* lines of a positive column width and the second empty
C9_Witness ==
    /\ call.fn = "calculate_text_height"
    /\ call.at = "returned"
    /\ call.text = Str(<<20013, 20013, 10>>)
    /\ call.a = Rat(20, 9)
    /\ call.b = Whole(12)
    /\ call.ret = Whole(4)

\* C10: for a positive original_size and any utilization > 0, adjust_font_size
\* returns original_size when utilization >= 0.5 and exactly 1.5 * original_size
\* when 0 < utilization < 0.5, so never less than original_size
C10_AdjustNeverShrinks ==
    (call.fn = "adjust_font_size" /\ RLt(Zero, call.b)) =>
        /\ call.at # "raised"
        /\ call.at = "returned" =>
              /\ RLe(HALF, call.b) => call.ret = call.a
              /\ RLt(call.b, HALF) => call.ret = RMul(Rat(3, 2), call.a)
              /\ RLe(call.a, call.ret)

\* a call returned with the font enlarged for a utilization just below 0.5,
\* where 1 / utilization lies above max_factor
C10_Witness ==
    /\ call.fn = "adjust_font_size"
    /\ call.at = "returned"
    /\ call.b = Rat(49, 100)
    /\ call.a = Whole(12)
    /\ call.ret = Whole(18)


=============================================================================
